---- MODULE Spec2Model ----
(***************************************************************************)
(* State-machine model of static/js/skyrfi.js: the three feed fetchers     *)
(* (terrain horizon, orbital catalog, aircraft), the localStorage-backed   *)
(* read-through cache they share, the startup sequence and the fast tick.  *)
(*                                                                         *)
(* Time is counted in units of 500 ms (Date.now() / 500), so that the one  *)
(* year horizon TTL fits the model checker's integers: 1000 ms = 2 units.  *)
(* JavaScript runs one task at a time: every action below is one task (a   *)
(* timer callback, or the continuation of an awaited network promise with  *)
(* all the microtasks it triggers), so the code between two awaits that    *)
(* wait for the network is one atomic step.                                *)
(***************************************************************************)
EXTENDS Integers, Sequences, FiniteSets, TLC

VARIABLES
    now,             \* Date.now(), in units of 500 ms
    store,           \* localStorage: one raw item per storage key
    satRecords,      \* SK_STATE.satRecords
    horizon,         \* SK_STATE.horizon = [az, alt]
    planes,          \* SK_STATE.planes: hex -> tracked aircraft
    plotInitialized, \* SK_STATE.plotInitialized
    initPc,          \* position of init()
    tle,             \* the fetchTLEs call in flight, and the record of the last one
    hor,             \* the fetchHorizon call in flight, and the record of the last one
    pln,             \* the fetchPlanes call in flight, and the record of the last one
    feed,            \* environment: state of the aircraft endpoint
    tick,            \* what the last updateMathLoop run read, computed and wrote
    page,            \* the document: what it lacks, and the banner it shows
    plot,            \* the polar plot: its trace list (pDiv.data)
    pln2             \* a fetchPlanes call issued while pln was still in flight

vars == <<now, store, satRecords, horizon, planes, plotInitialized, initPc,
          tle, hor, pln, feed, tick, page, plot, pln2>>

\* What is on screen.
display == <<page, plot>>

\* ------------------------------------------------------------------ time
Ms(n) == n \div 500

TLE_FETCH_MS == Ms(3 * 60 * 60 * 1000)
PLANE_FETCH_MS == Ms(1000)
HORIZON_TTL == 365 * 24 * 60 * 60 * Ms(1000)
GRACE_MS == Ms(15000)

\* ------------------------------------------------------- strings as tokens
\* A line of text is a sequence of tokens; " " is a whitespace token.
RECURSIVE TrimLeft(_)
TrimLeft(s) ==
    IF s = <<>> THEN s
    ELSE IF Head(s) = " " THEN TrimLeft(Tail(s)) ELSE s

RECURSIVE TrimRight(_)
TrimRight(s) ==
    IF s = <<>> THEN s
    ELSE IF s[Len(s)] = " " THEN TrimRight(SubSeq(s, 1, Len(s) - 1)) ELSE s

\* String.prototype.trim
Trim(s) == TrimRight(TrimLeft(s))

Includes(s, tok) == \E i \in 1..Len(s) : s[i] = tok

getGroup(name) ==
    IF Includes(name, "STARLINK") THEN "STARLINK"
    ELSE IF Includes(name, "MUOS") THEN "MUOS"
    ELSE IF Includes(name, "GPS") THEN "GPS"
    ELSE IF Includes(name, "ONEWEB") THEN "ONEWEB"
    ELSE "OTHER"

\* ------------------------------------------------- localStorage and JSON
\* A raw item is what getItem returns.  kind "absent": null (or "");
\* "garbage": text JSON.parse rejects; "jsonnull": the text "null";
\* "nots": an object without a numeric ts; "json": {ts, data}.
RawItem(kind, ts, data) == [kind |-> kind, ts |-> ts, data |-> data]

\* JSON.stringify({ ts: now, data })
Stringify(ts, data) == RawItem("json", ts, data)

\* Lines 71-77 / 86-92: the read half of cachedFetchText / cachedFetchJson.
\* res is "hit" (return obj.data), "miss" (go on to the network) or "raise"
\* (an exception leaves the function; the code's try/catch never lets it).
\* Variant: the read without its try/catch (JSON.parse and obj.ts raise).
CacheLookupRaising(raw, t, ttl) ==
    IF raw.kind = "absent" THEN [res |-> "miss", data |-> raw.data]
    ELSE IF raw.kind \in {"garbage", "jsonnull"} THEN [res |-> "raise", data |-> raw.data]
    ELSE IF raw.kind = "nots" THEN [res |-> "miss", data |-> raw.data]
    ELSE IF t - raw.ts < ttl THEN [res |-> "hit", data |-> raw.data]
    ELSE [res |-> "miss", data |-> raw.data]

\* Variant: an entry aged exactly ttl still counts as fresh.
CacheLookupInclusive(raw, t, ttl) ==
    IF raw.kind = "absent" THEN [res |-> "miss", data |-> raw.data]
    ELSE IF raw.kind \in {"garbage", "jsonnull"} THEN [res |-> "miss", data |-> raw.data]
    ELSE IF raw.kind = "nots" THEN [res |-> "miss", data |-> raw.data]
    ELSE IF t - raw.ts <= ttl THEN [res |-> "hit", data |-> raw.data]
    ELSE [res |-> "miss", data |-> raw.data]

CacheLookup(raw, t, ttl) ==
    IF raw.kind = "absent" THEN [res |-> "miss", data |-> raw.data]                  \* if (raw)
    ELSE IF raw.kind \in {"garbage", "jsonnull"} THEN [res |-> "miss", data |-> raw.data] \* catch (e)
    ELSE IF raw.kind = "nots" THEN [res |-> "miss", data |-> raw.data]               \* NaN < ttl
    ELSE IF t - raw.ts < ttl THEN [res |-> "hit", data |-> raw.data]
    ELSE [res |-> "miss", data |-> raw.data]

\* Lines 80 / 95: try { localStorage.setItem(key, JSON.stringify({ts: now, data})) } catch (e) {}
\* accepted = FALSE is a setItem that throws (quota exceeded).
\* Variant: the write without its try/catch.
CacheStoreRaising(raw, ts, data, accepted) ==
    IF accepted THEN [raw |-> Stringify(ts, data), threw |-> FALSE]
    ELSE [raw |-> raw, threw |-> TRUE]

CacheStore(raw, ts, data, accepted) ==
    IF accepted THEN [raw |-> Stringify(ts, data), threw |-> FALSE]
    ELSE [raw |-> raw, threw |-> FALSE]

\* ------------------------------------------------ one cachedFetch call
\* The fields every fetcher's call record has.  pc: "idle" (no call in
\* flight), "fetch" (awaiting fetch(url)), "body" (awaiting r.text() /
\* r.json()), "hung" (a network promise that never settles).  The other
\* fields record the last cachedFetch call: res is "none", "hit", "miss"
\* (retrieval under way), "ret" (retrieved and returned), "neterr" (the
\* retrieval failed and the call raised) or "storerr" (a storage error left
\* the call).
NoCall(noData) ==
    [pc |-> "idle", t0 |-> 0, ttl |-> 0, resp |-> noData,
     res |-> "none", readRaw |-> RawItem("absent", 0, noData),
     net |-> 0, writes |-> 0, wrote |-> RawItem("absent", 0, noData),
     tw |-> 0, wok |-> FALSE, ret |-> noData]

\* Lines 70-78: const now = Date.now(); the cache read; on a miss, fetch(url).
CfCall(c, raw, t, ttl) ==
    LET lk == CacheLookup(raw, t, ttl) IN
    [c EXCEPT !.t0 = t, !.ttl = ttl, !.readRaw = raw,
              !.res = IF lk.res = "raise" THEN "storerr" ELSE lk.res,
              !.pc = IF lk.res = "miss" THEN "fetch" ELSE "idle",
              !.net = IF lk.res = "miss" THEN 1 ELSE 0,
              !.writes = 0, !.wok = FALSE, !.tw = t,
              !.wrote = raw,
              !.ret = lk.data, !.resp = lk.data]

\* Line 78 / 93: fetch(url) resolved with a response carrying `body`.
CfResponse(c, body) == [c EXCEPT !.pc = "body", !.resp = body]

\* fetch(url), r.text() or r.json() rejected: the call raises.
CfReject(c) == [c EXCEPT !.pc = "idle", !.res = "neterr"]

\* The network promise never settles.
CfHang(c) == [c EXCEPT !.pc = "hung"]

\* Lines 79-81 / 94-96: the body arrived; write it to the cache; return it.
CfReturn(c, raw, t, accepted) ==
    LET st == CacheStore(raw, c.t0, c.resp, accepted) IN
    [call |-> [c EXCEPT !.pc = "idle",
                        !.res = IF st.threw THEN "storerr" ELSE "ret",
                        !.writes = c.writes + 1,
                        !.wrote = st.raw,
                        !.tw = t, !.wok = accepted /\ ~st.threw,
                        !.ret = c.resp],
     raw |-> st.raw]

\* ------------------------------------------------------- orbital catalog
\* satellite.twoline2satrec(l1, l2) plus lines 163-164
SatRec(nameLine, l1, l2) ==
    [name |-> Trim(nameLine), group |-> getGroup(Trim(nameLine)),
     l1 |-> Trim(l1), l2 |-> Trim(l2)]

\* Lines 160-167: the loop over the lines, three at a time (i is 1-based
\* here).  lines[i+1] or lines[i+2] past the end is undefined, and
\* undefined.trim() throws a TypeError that leaves the loop with the
\* records pushed so far.
RECURSIVE TleLoop(_, _, _)
TleLoop(lines, i, recs) ==
    IF i > Len(lines) THEN [recs |-> recs, threw |-> FALSE]
    ELSE IF lines[i] = <<>> THEN TleLoop(lines, i + 3, recs)
    ELSE IF i + 2 > Len(lines) THEN [recs |-> recs, threw |-> TRUE]
    ELSE TleLoop(lines, i + 3, Append(recs, SatRec(lines[i], lines[i + 1], lines[i + 2])))

\* Lines 158-167: SK_STATE.satRecords = []; then the loop pushes in place.
ParseTLE(text, old) == TleLoop(text, 1, <<>>)

\* Catalog texts the endpoint (or the cache) can deliver, already split at
\* "\n": one padded name line and two element lines per object.
NameA == <<"STARLINK", "-1", " ">>
NameB == <<"GPS", "-2", " ">>
L1(x) == <<"1", x>>
L2(x) == <<"2", x, " ">>
TextOne == <<NameA, L1("a"), L2("a"), <<>>>>
TextTwo == <<NameA, L1("a"), L2("a"), NameB, L1("b"), L2("b")>>
TextCut == <<NameB, L1("b"), L2("b"), NameA, L1("a")>>
TextError == << <<"error">> >>
TleTexts == {TextOne, TextTwo, TextCut, TextError}

\* Texts with a malformed group between two objects: a blank line, and a
\* name line followed by one element line only.
TextBlank == <<NameA, L1("a"), L2("a"), <<>>, NameB, L1("b"), L2("b")>>
TextShort == <<NameA, L1("a"), L2("a"), <<"ONEWEB", "-3">>, L1("c"), NameB, L1("b"), L2("b")>>

NoTle == NoCall(<<>>) @@ [old |-> <<>>, new |-> <<>>, failed |-> FALSE, ended |-> FALSE]

\* Lines 158-168 after the text is there: parse, replace, catch.
TleParsed(c, text, cur) ==
    LET r == ParseTLE(text, cur) IN
    [call |-> [c EXCEPT !.failed = r.threw, !.ended = TRUE,
                        !.new = IF r.threw THEN c.old ELSE r.recs],
     recs |-> r.recs]

\* Line 168: the catch after a failed retrieval.
TleCaught(c) == [c EXCEPT !.failed = TRUE, !.ended = TRUE, !.new = c.old]

\* --------------------------------------------------------------- horizon
\* A CSV field is what parseFloat makes of it: a number, or NaN.
Num(v) == [nan |-> FALSE, v |-> v]
NaN == [nan |-> TRUE, v |-> 0]

\* (a, b) => a.a - b.a is negative
Less(x, y) == ~x.nan /\ ~y.nan /\ x.v < y.v

\* Array.prototype.sort with that comparator, on [a, e] pairs: stable.
RECURSIVE InsertSorted(_, _)
InsertSorted(sorted, x) ==
    IF sorted = <<>> THEN <<x>>
    ELSE IF Less(x.a, Head(sorted).a) THEN <<x>> \o sorted
    ELSE <<Head(sorted)>> \o InsertSorted(Tail(sorted), x)

RECURSIVE SortByAz(_)
SortByAz(c) ==
    IF c = <<>> THEN <<>>
    ELSE InsertSorted(SortByAz(SubSeq(c, 1, Len(c) - 1)), c[Len(c)])

\* Lines 146-149: rows 2.. of the text with at least three fields.
RECURSIVE HorizonRows(_, _)
HorizonRows(lines, i) ==
    IF i > Len(lines) THEN <<>>
    ELSE IF Len(lines[i]) >= 3
         THEN <<[a |-> lines[i][2], e |-> lines[i][3]]>> \o HorizonRows(lines, i + 1)
         ELSE HorizonRows(lines, i + 1)

\* Lines 143-153
parseHorizonCsv(text) ==
    LET c == SortByAz(HorizonRows(text, 2)) IN
    [az |-> [i \in 1..Len(c) |-> c[i].a], alt |-> [i \in 1..Len(c) |-> c[i].e]]

Header == <<NaN, NaN, NaN>>
CsvLocal == <<Header, <<Num(1), Num(90), Num(2)>>, <<Num(0), Num(0), Num(1)>>, <<NaN>>>>
CsvRemote == <<Header, <<Num(0), Num(180), Num(3)>>, <<Num(1), Num(270)>>>>
NotFoundBody == << <<NaN>>, <<NaN>> >>
GarbageBody == <<Header, <<NaN, NaN, NaN>>>>

\* Other sites' panoramas, as files: rows "bin, azimuth, elevation" in the
\* order the file has them.
Row(bin, az, alt) == <<Num(bin), Num(az), Num(alt)>>
CsvFlat == <<Header, Row(0, 200, 2), Row(1, 45, 2), Row(2, 45, 2)>>
CsvSeam == <<Header, Row(0, 350, 5), Row(1, 10, 1)>>
CsvDup == <<Header, Row(0, 10, 1), Row(1, 10, 5), Row(2, 200, 3)>>
CsvOne == <<Header, Row(0, 180, 3)>>

\* A panorama file in which one row has text where the azimuth should be.
CsvBadRow == <<Header, Row(0, 90, 2), <<Num(1), NaN, Num(4)>>, Row(2, 0, 1)>>

\* A source that serves one of those panoramas is in the state of its name.
TerrainStates == {"ok", "flat", "seam", "dup", "one"}

\* What a terrain source answers in each state: "ok" the CSV, "notfound" a
\* 404 page, "garbage" a 200 with something that is no CSV.  fetch(url)
\* resolves for all three; only "down" rejects.
SourceStates == {"ok", "down", "notfound", "garbage"}
SourceBody(which, st) ==
    IF st = "notfound" THEN NotFoundBody
    ELSE IF st = "garbage" THEN GarbageBody
    ELSE IF st = "flat" THEN CsvFlat
    ELSE IF st = "seam" THEN CsvSeam
    ELSE IF st = "dup" THEN CsvDup
    ELSE IF st = "one" THEN CsvOne
    ELSE IF st = "badrow" THEN CsvBadRow
    ELSE IF which = "primary" THEN CsvLocal ELSE CsvRemote

NoHorizon == [az |-> <<>>, alt |-> <<>>]

NoHor == NoCall(<<>>) @@
    [stage |-> "primary", srcP |-> "ok", srcS |-> "ok", before |-> NoHorizon,
     primTried |-> FALSE, primRet |-> FALSE, secTried |-> FALSE, ended |-> FALSE]

\* ------------------------------------------------------- getHorizonLimit
\* Elevations computed from the profile are rationals num/den with den > 0
\* (the code's doubles, without their rounding); nan is JavaScript's NaN.
Rat(n) == [nan |-> FALSE, num |-> n, den |-> 1]
NaNLimit == [nan |-> TRUE, num |-> 0, den |-> 1]

\* JavaScript's %: the remainder takes the sign of the dividend.
Rem(a, n) == IF a >= 0 THEN a % n ELSE 0 - ((0 - a) % n)

\* Line 111
NormAz(azDeg) == Rem(Rem(azDeg, 360) + 360, 360)

\* Lines 112-116: the binary search, on 0-based indices as in the code.
RECURSIVE Search(_, _, _, _)
Search(azs, az, l, r) ==
    IF l > r THEN [l |-> l, r |-> r]
    ELSE LET m == (l + r) \div 2 IN
         IF Less(azs[m + 1], Num(az)) THEN Search(azs, az, m + 1, r)
         ELSE Search(azs, az, l, m - 1)

\* Variant: no wrap-around at the ends of the profile.
NeighboursClamped(n, s) ==
    [i1 |-> IF s.r < 0 THEN 0 ELSE s.r,
     i2 |-> IF s.l >= n THEN n - 1 ELSE s.l]

\* Lines 117-118: the samples on either side, wrapping round the profile.
Neighbours(n, s) ==
    [i1 |-> IF s.r < 0 THEN n - 1 ELSE s.r,
     i2 |-> IF s.l >= n THEN 0 ELSE s.l]

\* Variant: the division by run without the run === 0 test (0/0 is NaN).
InterpolateUnguarded(az1, alt1, az2, alt2, az) ==
    IF az1.nan \/ az2.nan \/ alt1.nan \/ alt2.nan THEN NaNLimit
    ELSE LET run == Rem(az2.v - az1.v + 360, 360) IN
         IF run = 0 THEN NaNLimit
         ELSE [nan |-> FALSE,
               num |-> alt1.v * run + (alt2.v - alt1.v) * Rem(az - az1.v + 360, 360),
               den |-> run]

\* Lines 120-122.  A NaN azimuth makes run NaN, which is not === 0, and the
\* sum NaN; a NaN elevation makes whatever is returned NaN.
Interpolate(az1, alt1, az2, alt2, az) ==
    IF az1.nan \/ az2.nan THEN NaNLimit
    ELSE LET run == Rem(az2.v - az1.v + 360, 360) IN
         IF run = 0 THEN (IF alt1.nan THEN NaNLimit ELSE Rat(alt1.v))
         ELSE IF alt1.nan \/ alt2.nan THEN NaNLimit
         ELSE [nan |-> FALSE,
               num |-> alt1.v * run + (alt2.v - alt1.v) * Rem(az - az1.v + 360, 360),
               den |-> run]

\* Lines 119-122 on the profile h, for the normalised azimuth az.
Between(h, az) ==
    LET nb == Neighbours(Len(h.az), Search(h.az, az, 0, Len(h.az) - 1)) IN
    Interpolate(h.az[nb.i1 + 1], h.alt[nb.i1 + 1],
                h.az[nb.i2 + 1], h.alt[nb.i2 + 1], az)

\* Variant: an empty profile hides nothing above the true horizon (0).
getHorizonLimitZero(h, azDeg) ==
    IF Len(h.az) = 0 THEN Rat(0) ELSE Between(h, NormAz(azDeg))

\* Lines 108-123
getHorizonLimit(h, azDeg) ==
    IF Len(h.az) = 0 THEN Rat(-5) ELSE Between(h, NormAz(azDeg))

\* el > lim, and el > lim - 0.5, for an integer el (lines 331 and 342); a
\* comparison with NaN is false.
Above(el, lim) == ~lim.nan /\ el * lim.den > lim.num
AboveLess05(el, lim) == ~lim.nan /\ 2 * el * lim.den > 2 * lim.num - lim.den

\* ---------------------------------------------------------------- planes
Hexes == {"h1", "h2"}

\* One record of data.ac; 0 is a missing (or zero) number, <<>> a missing
\* (or empty) string.
Ac(hex, lat, flight, r) ==
    [hex |-> hex, lat |-> lat, lon |-> 7, flight |-> flight, r |-> r,
     alt_geom |-> 0, alt_baro |-> 300]

Snap(ac) == [kind |-> "obj", hasAc |-> TRUE, ac |-> ac]
SnapEmpty == Snap(<<>>)
SnapH1 == Snap(<<Ac("h1", 1, <<"UAL1", " ">>, <<"N1">>)>>)
SnapBoth == Snap(<<Ac("h1", 2, <<>>, <<"N1">>), Ac("h2", 3, <<" ">>, <<>>)>>)
SnapNoAc == [kind |-> "obj", hasAc |-> FALSE, ac |-> <<>>]
SnapNull == [kind |-> "null", hasAc |-> FALSE, ac |-> <<>>]
Snapshots == {SnapEmpty, SnapH1, SnapBoth, SnapNoAc, SnapNull}

\* Records without a position: h1 without latitude, h2 without longitude.
NoLon(p) == [p EXCEPT !.lon = 0]
SnapNoPos ==
    Snap(<<Ac("h1", 0, <<"UAL1">>, <<"N1">>), NoLon(Ac("h2", 3, <<"DAL2">>, <<>>))>>)

\* A record whose flight field is all blanks, with a registration.
SnapBlank == Snap(<<Ac("h2", 3, <<" ", " ">>, <<"N2">>)>>)

\* Lines 181-190
Tracked(p, t) ==
    [hex |-> p.hex,
     callsign |-> IF p.flight # <<>> THEN Trim(p.flight)
                  ELSE IF p.r # <<>> THEN p.r ELSE <<p.hex>>,
     lat |-> p.lat, lon |-> p.lon,
     alt_ft |-> IF p.alt_geom # 0 THEN p.alt_geom
                ELSE IF p.alt_baro # 0 THEN p.alt_baro ELSE 0,
     last_update |-> t]

\* Variant: the latitude alone decides.
ValidAcLatOnly(p) == p.lat # 0

\* Line 180: if (!p.lat || !p.lon) return;
ValidAc(p) == p.lat # 0 /\ p.lon # 0

\* Lines 179-191: the forEach over data.ac
RECURSIVE Upsert(_, _, _, _)
Upsert(pl, ac, i, t) ==
    IF i > Len(ac) THEN pl
    ELSE IF ~ValidAc(ac[i]) THEN Upsert(pl, ac, i + 1, t)
    ELSE Upsert([h \in (DOMAIN pl) \cup {ac[i].hex} |->
                    IF h = ac[i].hex THEN Tracked(ac[i], t) ELSE pl[h]],
                ac, i + 1, t)

ValidHexes(ac) == {ac[i].hex : i \in {j \in 1..Len(ac) : ValidAc(ac[j])}}

\* Variant: pruning from exactly 15000 ms on.
StaleAtGrace(t, last) == t - last >= GRACE_MS

\* Line 194: now - SK_STATE.planes[k].last_update > 15000
Stale(t, last) == t - last > GRACE_MS

\* Lines 193-195
Prune(pl, valid, t) ==
    [h \in {k \in DOMAIN pl : ~(k \notin valid /\ Stale(t, pl[k].last_update))} |-> pl[h]]

\* Lines 176-195: what fetchPlanes does with the data; data.ac of null throws.
ProcessPlanes(pl, data, t) ==
    IF data.kind = "null" THEN [planes |-> pl, threw |-> TRUE, valid |-> {}]
    ELSE LET ac == IF data.hasAc THEN data.ac ELSE <<>> IN
         [planes |-> Prune(Upsert(pl, ac, 1, t), ValidHexes(ac), t),
          threw |-> FALSE, valid |-> ValidHexes(ac)]

NoPlanes == [h \in {} |-> 0]

\* pr: the last run of lines 176-195 that processed a snapshot: when, on
\* which records (ac), on which map (before), with which validHexes.
NoPln == NoCall(SnapNull) @@
    [ended |-> FALSE, failed |-> FALSE,
     pr |-> [ran |-> FALSE, at |-> 0, valid |-> {}, before |-> NoPlanes,
             ac |-> <<>>]]

\* ================================================================ actions
\* ----------------------------------------------------------- fetchTLEs
\* Lines 155-157: fetchTLEs() up to its first wait for the network and, on
\* a cache hit, through to its end (lines 158-168).
TleCallEff ==
    LET c0 == [tle EXCEPT !.old = satRecords, !.new = satRecords,
                          !.failed = FALSE, !.ended = FALSE]
        c == CfCall(c0, store.tles, now, TLE_FETCH_MS)
    IN  IF c.res = "hit"
        THEN LET p == TleParsed(c, c.ret, satRecords) IN
             tle' = p.call /\ satRecords' = p.recs
        ELSE IF c.res = "storerr"
        THEN tle' = TleCaught(c) /\ satRecords' = satRecords
        ELSE tle' = c /\ satRecords' = satRecords

\* Line 78 settles: fetch(url) resolves with a response, rejects, or hangs.
TleFetchDone(bodies, fails) ==
    /\ tle.pc = "fetch"
    /\ \/ \E b \in bodies : tle' = CfResponse(tle, b)
       \/ "reject" \in fails /\ tle' = TleCaught(CfReject(tle))
       \/ "hang" \in fails /\ tle' = CfHang(tle)
    /\ UNCHANGED <<now, store, satRecords, horizon, planes, plotInitialized,
                   initPc, hor, pln, feed, tick, display, pln2>>

\* Line 79 settles: r.text() resolves (then lines 80-81 and 158-168 run) or
\* rejects (line 168).
TleBodyDone(oks, accepts) ==
    /\ tle.pc = "body"
    /\ \E ok \in oks, acc \in accepts :
          IF ok
          THEN LET r == CfReturn(tle, store.tles, now, acc) IN
               IF r.call.res = "storerr"
               THEN /\ tle' = TleCaught(r.call)
                    /\ UNCHANGED <<satRecords, store>>
               ELSE LET p == TleParsed(r.call, r.call.ret, satRecords) IN
                    /\ tle' = p.call
                    /\ satRecords' = p.recs
                    /\ store' = [store EXCEPT !.tles = r.raw]
          ELSE /\ tle' = TleCaught(CfReject(tle))
               /\ UNCHANGED <<satRecords, store>>
    /\ UNCHANGED <<now, horizon, planes, plotInitialized, initPc, hor, pln, feed, tick, display, pln2>>

\* --------------------------------------------------------- fetchHorizon
\* Lines 134-139: the catch of the primary attempt: the secondary attempt, up
\* to its wait for the network or, on a cache hit, to its end.
HorFallback(c, hz) ==
    LET c2 == CfCall([c EXCEPT !.stage = "secondary"], store.horizon, now, HORIZON_TTL) IN
    IF c2.res = "hit"
    THEN [call |-> [c2 EXCEPT !.ended = TRUE], horizon |-> parseHorizonCsv(c2.ret)]
    ELSE IF c2.res = "storerr"
    THEN [call |-> [c2 EXCEPT !.ended = TRUE], horizon |-> hz]
    ELSE [call |-> [c2 EXCEPT !.secTried = TRUE], horizon |-> hz]

\* An attempt raised: lines 133-134 after the primary, 137-139 after the secondary.
HorFailed(c, hz) ==
    IF c.stage = "primary" THEN HorFallback(c, hz)
    ELSE [call |-> [c EXCEPT !.ended = TRUE], horizon |-> hz]

\* Lines 126-132: fetchHorizon() up to its first wait for the network.  sp
\* and ss are the states the two sources are in during this call.
HorCallEff(sp, ss) ==
    LET c0 == [hor EXCEPT !.stage = "primary", !.srcP = sp, !.srcS = ss,
                          !.before = horizon, !.primTried = FALSE,
                          !.primRet = FALSE, !.secTried = FALSE, !.ended = FALSE]
        c == CfCall(c0, store.horizon, now, HORIZON_TTL)
    IN  IF c.res = "hit"
        THEN hor' = [c EXCEPT !.ended = TRUE] /\ horizon' = parseHorizonCsv(c.ret)
        ELSE IF c.res = "storerr"
        THEN LET f == HorFailed(c, horizon) IN hor' = f.call /\ horizon' = f.horizon
        ELSE hor' = [c EXCEPT !.primTried = TRUE] /\ horizon' = horizon

HorSource == IF hor.stage = "primary" THEN hor.srcP ELSE hor.srcS

\* Line 78 settles for the source in hand.
HorFetchDone(fails) ==
    /\ hor.pc = "fetch"
    /\ \/ /\ HorSource # "down"
          /\ hor' = CfResponse(hor, SourceBody(hor.stage, HorSource))
          /\ UNCHANGED horizon
       \/ /\ HorSource = "down"
          /\ LET f == HorFailed(CfReject(hor), horizon) IN
             hor' = f.call /\ horizon' = f.horizon
       \/ /\ "hang" \in fails
          /\ hor' = CfHang(hor)
          /\ UNCHANGED horizon
    /\ UNCHANGED <<now, store, satRecords, planes, plotInitialized, initPc,
                   tle, pln, feed, tick, display, pln2>>

\* Line 79 settles: r.text() resolves (lines 80-81, then parseHorizonCsv) or rejects.
HorBodyDone(oks, accepts) ==
    /\ hor.pc = "body"
    /\ \E ok \in oks, acc \in accepts :
          IF ok
          THEN LET r == CfReturn(hor, store.horizon, now, acc) IN
               IF r.call.res = "storerr"
               THEN LET f == HorFailed(r.call, horizon) IN
                    hor' = f.call /\ horizon' = f.horizon /\ UNCHANGED store
               ELSE /\ hor' = [r.call EXCEPT !.ended = TRUE,
                                             !.primRet = (hor.stage = "primary")]
                    /\ horizon' = parseHorizonCsv(r.call.ret)
                    /\ store' = [store EXCEPT !.horizon = r.raw]
          ELSE LET f == HorFailed(CfReject(hor), horizon) IN
               hor' = f.call /\ horizon' = f.horizon /\ UNCHANGED store
    /\ UNCHANGED <<now, satRecords, planes, plotInitialized, initPc, tle, pln, feed, tick, display, pln2>>

\* ----------------------------------------------------------- fetchPlanes
\* Variant: the time stamp taken when the call was entered, before the await.
PlnProcessedAtEntry(c, data, t) ==
    LET r == ProcessPlanes(planes, data, c.t0) IN
    [call |-> [c EXCEPT !.ended = TRUE, !.failed = r.threw,
                        !.pr = IF r.threw THEN c.pr
                               ELSE [ran |-> TRUE, at |-> t, valid |-> r.valid,
                                     before |-> planes,
                                     ac |-> IF data.hasAc THEN data.ac ELSE <<>>]],
     planes |-> r.planes]

\* Lines 176-195 on the data in hand, and the catch of line 196.
PlnProcessed(c, data, t) ==
    LET r == ProcessPlanes(planes, data, t) IN
    [call |-> [c EXCEPT !.ended = TRUE, !.failed = r.threw,
                        !.pr = IF r.threw THEN c.pr
                               ELSE [ran |-> TRUE, at |-> t, valid |-> r.valid,
                                     before |-> planes,
                                     ac |-> IF data.hasAc THEN data.ac ELSE <<>>]],
     planes |-> r.planes]

\* Line 196: the catch after a failed retrieval.
PlnCaught(c) == [c EXCEPT !.ended = TRUE, !.failed = TRUE]

\* Lines 171-175: fetchPlanes() up to its first wait for the network and, on
\* a cache hit, through to its end.
PlnCallEff ==
    LET c0 == [pln EXCEPT !.ended = FALSE, !.failed = FALSE]
        c == CfCall(c0, store.planes, now, PLANE_FETCH_MS)
    IN  IF c.res = "hit"
        THEN LET p == PlnProcessed(c, c.ret, now) IN
             pln' = p.call /\ planes' = p.planes
        ELSE IF c.res = "storerr"
        THEN pln' = PlnCaught(c) /\ planes' = planes
        ELSE pln' = c /\ planes' = planes

\* Line 93 settles: while the endpoint is down every fetch rejects.
PlnFetchDone(snaps, fails) ==
    /\ pln.pc = "fetch"
    /\ \/ feed = "up" /\ \E s \in snaps : pln' = CfResponse(pln, s)
       \/ (feed = "down" \/ "reject" \in fails) /\ pln' = PlnCaught(CfReject(pln))
       \/ "hang" \in fails /\ pln' = CfHang(pln)
    /\ UNCHANGED <<now, store, satRecords, horizon, planes, plotInitialized,
                   initPc, tle, hor, feed, tick, display, pln2>>

\* Line 94 settles: r.json() resolves (lines 95-96, then 176-195) or rejects.
PlnBodyDone(oks, accepts) ==
    /\ pln.pc = "body"
    /\ \E ok \in oks, acc \in accepts :
          IF ok
          THEN LET r == CfReturn(pln, store.planes, now, acc) IN
               IF r.call.res = "storerr"
               THEN /\ pln' = PlnCaught(r.call)
                    /\ UNCHANGED <<planes, store>>
               ELSE LET p == PlnProcessed(r.call, r.call.ret, now) IN
                    /\ pln' = p.call
                    /\ planes' = p.planes
                    /\ store' = [store EXCEPT !.planes = r.raw]
          ELSE /\ pln' = PlnCaught(CfReject(pln))
               /\ UNCHANGED <<planes, store>>
    /\ UNCHANGED <<now, satRecords, horizon, plotInitialized, initPc, tle, hor, feed, tick, display, pln2>>

\* The aircraft endpoint goes down and stays down.
FeedOutage ==
    /\ feed = "up"
    /\ feed' = "down"
    /\ UNCHANGED <<now, store, satRecords, horizon, planes, plotInitialized,
                   initPc, tle, hor, pln, tick, display, pln2>>

\* ------------------------------------------------------------ the document
\* Lines 38-39: the libraries the script expects as globals.
Libraries == {"Plotly", "satellite.js"}

\* Line 40: the element ids runtimeCheck looks up.
CheckedIds ==
    {"polar", "rect", "clock-utc", "clock-obs", "clock-user", "count-sat",
     "count-plane"}

\* Lines 313-315 and 346-349: the elements a tick assigns innerText to, in
\* the order it does.
TickIds ==
    <<"clock-utc", "clock-obs", "clock-user", "count-sat", "blocked-sat",
      "count-plane", "blocked-plane">>

\* A document that lacks the libraries and elements of missing; no banner yet.
Page(missing) == [missing |-> missing, banner |-> "none"]

\* Variant: a startup check of the libraries alone.
runtimeCheckLibraries(pg) == pg.missing \cap Libraries = {}

\* Lines 36-48: TRUE when the list of missing things stays empty.
runtimeCheck(pg) == pg.missing \cap (Libraries \cup CheckedIds) = {}

\* document.getElementById(id).innerText = ... for ids[i], ids[i+1], ...: the
\* elements assigned before the first one the document lacks, where
\* getElementById returns null and the assignment throws a TypeError.
RECURSIVE Written(_, _, _)
Written(pg, ids, i) ==
    IF i > Len(ids) THEN {}
    ELSE IF ids[i] \in pg.missing THEN {}
    ELSE {ids[i]} \cup Written(pg, ids, i + 1)

\* ---------------------------------------------------------------- the sky
\* What satellite.js computes for one object at one instant: a position or
\* none, and from the position the look angles in whole degrees and the range.
Look(az, el) == [pos |-> TRUE, az |-> az, el |-> el, dist |-> 500]
NoPosition == [pos |-> FALSE, az |-> 0, el |-> 0, dist |-> 0]

\* A sky where no orbital object has a position, and one where every
\* aircraft stands at 45 degrees, 10 degrees up.
NoLook == {NoPosition}
OneLook == {Look(45, 10)}

\* Lines 323-330 and 336-341: an object under its name, where it is seen.
Seen(name, group, look) ==
    [name |-> name, group |-> group, pos |-> look.pos, az |-> look.az,
     el |-> look.el, dist |-> look.dist]

\* Lines 331 and 342: the entry pushed on a visible list.
Shown(o) ==
    [name |-> o.name, az |-> o.az, el |-> o.el, dist |-> o.dist, group |-> o.group]

\* Variant: no floor under the blocked objects.
SatOutcomeNoFloor(h, o) ==
    IF ~o.pos THEN "skipped"
    ELSE IF Above(o.el, getHorizonLimit(h, o.az)) THEN "visible"
    ELSE "blocked"

\* Lines 323-333
SatOutcome(h, o) ==
    IF ~o.pos THEN "skipped"
    ELSE IF Above(o.el, getHorizonLimit(h, o.az)) THEN "visible"
    ELSE IF o.el > -10 THEN "blocked"
    ELSE "skipped"

\* Variant: aircraft held to the occlusion line itself, without the margin.
AcOutcomeNoMargin(h, o) ==
    IF Above(o.el, getHorizonLimit(h, o.az)) THEN "visible" ELSE "blocked"

\* Lines 342-343
AcOutcome(h, o) ==
    IF AboveLess05(o.el, getHorizonLimit(h, o.az)) THEN "visible" ELSE "blocked"

\* Object.values(SK_STATE.planes), with the hex ids in a fixed order.
HexOrder == <<"h1", "h2">>
PlaneSeq(pl) == SelectSeq(HexOrder, LAMBDA h : h \in DOMAIN pl)

Visible(outcomes, obs) ==
    LET idx == SelectSeq([i \in 1..Len(obs) |-> i], LAMBDA i : outcomes[i] = "visible")
    IN  [k \in 1..Len(idx) |-> Shown(obs[idx[k]])]

Blocked(outcomes) == Cardinality({i \in DOMAIN outcomes : outcomes[i] = "blocked"})

\* --------------------------------------------------------------- the plots
\* One trace of the polar plot; theta and r hold numbers as the profile does.
Trace(name, mode, theta, r, text) ==
    [name |-> name, mode |-> mode, theta |-> theta, r |-> r, text |-> text]

Nums(xs) == [i \in 1..Len(xs) |-> Num(xs[i])]
Reverse(xs) == [i \in 1..Len(xs) |-> xs[Len(xs) + 1 - i]]

\* Line 208: the beam, whose geometry the configuration fixes.
Beam == Trace("Beam", "lines", <<>>, <<>>, <<>>)

\* Lines 213-217
Terrain(h) ==
    Trace("Terrain", "lines", h.az \o Reverse(h.az),
          h.alt \o [i \in 1..Len(h.az) |-> Num(0)], <<>>)

NoPlot == [data |-> <<>>, layers |-> <<>>]

\* Lines 242-246: Plotly.newPlot('polar', data, ...); layers remembers what
\* was drawn.
initPlots(h) ==
    LET data == IF Len(h.az) # 0 THEN <<Beam, Terrain(h)>> ELSE <<Beam>> IN
    [data |-> data, layers |-> data]

\* Lines 253 and 271: the priority groups, then the others sorted.
GroupOrder == <<"Aircraft", "STARLINK", "MUOS", "GPS", "ONEWEB", "OTHER">>

\* Lines 273-291: the traces of one group.
GroupTraces(g, objs) ==
    LET d == SelectSeq(objs, LAMBDA o : o.group = g)
        az == Nums([i \in 1..Len(d) |-> d[i].az])
        el == Nums([i \in 1..Len(d) |-> d[i].el])
        txt == [i \in 1..Len(d) |-> [name |-> d[i].name, dist |-> d[i].dist]]
    IN  IF Len(d) = 0 THEN <<>>
        ELSE IF g = "Aircraft"
        THEN <<Trace(g, "text", az, el, txt),
               Trace(g, "markers", <<Num(0)>>, <<Num(90)>>, <<>>)>>
        ELSE <<Trace(g, "markers", az, el, txt)>>

\* Lines 260-292: pTraces for the objects [...ac, ...sats].
RECURSIVE BuildTraces(_, _)
BuildTraces(objs, k) ==
    IF k > Len(GroupOrder) THEN <<>>
    ELSE GroupTraces(GroupOrder[k], objs) \o BuildTraces(objs, k + 1)

\* Lines 251-299, for the polar plot.
updatePlotTraces(pl, inited, h, sats, ac) ==
    IF ~inited THEN pl
    ELSE LET staticCnt == IF Len(h.az) # 0 THEN 2 ELSE 1
             kept == IF staticCnt < Len(pl.data) THEN staticCnt ELSE Len(pl.data)
         IN  [pl EXCEPT !.data = SubSeq(pl.data, 1, kept) \o BuildTraces(ac \o sats, 1)]

NoTick ==
    [ran |-> FALSE, sat |-> <<>>, old |-> <<>>, new |-> <<>>, hz |-> NoHorizon,
     sats |-> <<>>, satLim |-> <<>>, visSats |-> <<>>, blockSats |-> 0,
     acs |-> <<>>, acLim |-> <<>>, visPlanes |-> <<>>, blockPlanes |-> 0,
     tracked |-> 0,
     wrote |-> {}, done |-> FALSE]

\* ------------------------------------------------------------------ init
\* Line 358: runtimeCheck() fails; init returns.
InitAbort ==
    /\ initPc = "load"
    /\ ~runtimeCheck(page)
    /\ page' = [page EXCEPT !.banner = "startup"]
    /\ initPc' = "aborted"
    /\ UNCHANGED <<now, store, satRecords, horizon, planes, plotInitialized,
                   tle, hor, pln, feed, tick, plot, pln2>>

\* Lines 358-359: runtimeCheck() passes; fetchTLEs() and fetchHorizon() are
\* called, and init awaits both.
InitStart(srcsP, srcsS) ==
    /\ initPc = "load"
    /\ runtimeCheck(page)
    /\ initPc' = "awaiting"
    /\ TleCallEff
    /\ \E sp \in srcsP, ss \in srcsS : HorCallEff(sp, ss)
    /\ UNCHANGED <<now, store, planes, plotInitialized, pln, feed, tick, display, pln2>>

\* Lines 360-365: both promises settled; fetchPlanes(), initPlots(), the timers.
InitJoin ==
    /\ initPc = "awaiting"
    /\ tle.pc = "idle" /\ hor.pc = "idle"
    /\ PlnCallEff
    /\ plot' = initPlots(horizon)
    /\ plotInitialized' = TRUE
    /\ initPc' = "running"
    /\ UNCHANGED <<now, store, satRecords, horizon, tle, hor, feed, tick, page, pln2>>

\* Line 362: the fast timer fires; lines 302-352.  satLooks and acLooks are
\* what satellite.js can compute for an orbital object and for an aircraft;
\* satLim and acLim record what getHorizonLimit returns for their azimuths.
\* A TypeError ends the run where it is raised, and the window's error
\* listener (lines 30-32) puts it on the banner.
UpdateMathLoop(satLooks, acLooks) ==
    /\ initPc = "running"
    /\ \E sl \in [1..Len(satRecords) -> satLooks], al \in [DOMAIN planes -> acLooks] :
          LET sats == [i \in 1..Len(satRecords) |->
                          Seen(satRecords[i].name, satRecords[i].group, sl[i])]
              hx == PlaneSeq(planes)
              acs == [i \in 1..Len(hx) |->
                         Seen(planes[hx[i]].callsign, "Aircraft", al[hx[i]])]
              so == [i \in 1..Len(sats) |-> SatOutcome(horizon, sats[i])]
              ao == [i \in 1..Len(acs) |-> AcOutcome(horizon, acs[i])]
              visSats == Visible(so, sats)
              visPlanes == Visible(ao, acs)
              wrote == Written(page, TickIds, 1)
              done == wrote = {TickIds[i] : i \in 1..Len(TickIds)}
          IN  /\ tick' = [ran |-> TRUE, sat |-> satRecords, old |-> tle.old,
                          new |-> tle.new, hz |-> horizon,
                          sats |-> sats, visSats |-> visSats,
                          satLim |-> [i \in 1..Len(sats) |->
                                         getHorizonLimit(horizon, sats[i].az)],
                          acLim |-> [i \in 1..Len(acs) |->
                                        getHorizonLimit(horizon, acs[i].az)],
                          blockSats |-> Blocked(so),
                          acs |-> acs, visPlanes |-> visPlanes,
                          blockPlanes |-> Blocked(ao),
                          tracked |-> Cardinality(DOMAIN planes),
                          wrote |-> wrote, done |-> done]
              /\ plot' = IF done
                         THEN updatePlotTraces(plot, plotInitialized, horizon,
                                               visSats, visPlanes)
                         ELSE plot
              /\ page' = IF done THEN page ELSE [page EXCEPT !.banner = "runtime"]
    /\ UNCHANGED <<now, store, satRecords, horizon, planes, plotInitialized,
                   initPc, tle, hor, pln, feed, pln2>>

\* Line 363: the aircraft timer fires with no fetchPlanes call in flight.
\* The record of an earlier overlapping call is dropped.
TimerPlanes ==
    /\ initPc = "running"
    /\ pln.pc = "idle" /\ pln2.pc = "idle"
    /\ PlnCallEff
    /\ pln2' = NoPln
    /\ UNCHANGED <<now, store, satRecords, horizon, plotInitialized, initPc,
                   tle, hor, feed, tick, display>>

\* Line 363: the aircraft timer fires while the call before is still waiting
\* for the network, an interval after that call was issued; setInterval
\* does not wait for it.  The model follows two calls at a time.
TimerPlanesOverlap ==
    /\ initPc = "running"
    /\ pln.pc \in {"fetch", "body"} /\ pln2.pc = "idle" /\ ~pln2.ended
    /\ now >= pln.t0 + PLANE_FETCH_MS
    /\ LET c0 == [pln2 EXCEPT !.ended = FALSE, !.failed = FALSE]
           c == CfCall(c0, store.planes, now, PLANE_FETCH_MS)
       IN  IF c.res = "hit"
           THEN LET p == PlnProcessed(c, c.ret, now) IN
                pln2' = p.call /\ planes' = p.planes
           ELSE IF c.res = "storerr"
           THEN pln2' = PlnCaught(c) /\ planes' = planes
           ELSE pln2' = c /\ planes' = planes
    /\ UNCHANGED <<now, store, satRecords, horizon, plotInitialized, initPc,
                   tle, hor, pln, feed, tick, display>>

\* Line 93 settles for the overlapping call.
PlnFetchDone2(snaps, fails) ==
    /\ pln2.pc = "fetch"
    /\ \/ feed = "up" /\ \E s \in snaps : pln2' = CfResponse(pln2, s)
       \/ (feed = "down" \/ "reject" \in fails) /\ pln2' = PlnCaught(CfReject(pln2))
    /\ UNCHANGED <<now, store, satRecords, horizon, planes, plotInitialized,
                   initPc, tle, hor, pln, feed, tick, display>>

\* Line 94 settles for the overlapping call (lines 95-96, then 176-195).
PlnBodyDone2(oks, accepts) ==
    /\ pln2.pc = "body"
    /\ \E ok \in oks, acc \in accepts :
          IF ok
          THEN LET r == CfReturn(pln2, store.planes, now, acc) IN
               IF r.call.res = "storerr"
               THEN /\ pln2' = PlnCaught(r.call)
                    /\ UNCHANGED <<planes, store>>
               ELSE LET p == PlnProcessed(r.call, r.call.ret, now) IN
                    /\ pln2' = p.call
                    /\ planes' = p.planes
                    /\ store' = [store EXCEPT !.planes = r.raw]
          ELSE /\ pln2' = PlnCaught(CfReject(pln2))
               /\ UNCHANGED <<planes, store>>
    /\ UNCHANGED <<now, satRecords, horizon, plotInitialized, initPc, tle, hor,
                   pln, feed, tick, display>>

\* Line 364: the catalog timer fires.
TimerTLEs ==
    /\ initPc = "running"
    /\ tle.pc = "idle"
    /\ TleCallEff
    /\ UNCHANGED <<now, store, horizon, planes, plotInitialized, initPc,
                   hor, pln, feed, tick, display, pln2>>

\* Line 373: window.Skyrfi.fetchHorizon() called again from outside.
FetchHorizonAgain(srcsP, srcsS) ==
    /\ initPc = "running"
    /\ hor.pc = "idle"
    /\ \E sp \in srcsP, ss \in srcsS : HorCallEff(sp, ss)
    /\ UNCHANGED <<now, store, satRecords, planes, plotInitialized, initPc,
                   tle, pln, feed, tick, display, pln2>>

\* Time passes: Date.now() moves on to a later instant.
Advance(instants) ==
    /\ \E t \in instants : t > now /\ now' = t
    /\ UNCHANGED <<store, satRecords, horizon, planes, plotInitialized, initPc,
                   tle, hor, pln, feed, tick, display, pln2>>

\* ------------------------------------------------------------------ Init
\* State after the script has loaded (lines 61-66), before init() runs;
\* localStorage holds what an earlier session left under each key.
InitPage(tleItems, horItems, plnItems, pages) ==
    /\ now = 0
    /\ store \in [tles : tleItems, horizon : horItems, planes : plnItems]
    /\ satRecords = <<>>
    /\ horizon = NoHorizon
    /\ planes = NoPlanes
    /\ plotInitialized = FALSE
    /\ initPc = "load"
    /\ tle = NoTle
    /\ hor = NoHor
    /\ pln = NoPln
    /\ feed = "up"
    /\ tick = NoTick
    /\ page \in pages
    /\ plot = NoPlot
    /\ pln2 = NoPln

\* A complete document, and one whose Plotly script failed to load.
PlainPages == {Page({}), Page({"Plotly"})}

InitWith(tleItems, horItems, plnItems) ==
    InitPage(tleItems, horItems, plnItems, PlainPages)

\* Items an earlier session can have left behind.
CorruptItems(noData) ==
    {RawItem("garbage", 0, noData), RawItem("jsonnull", 0, noData),
     RawItem("nots", 0, noData)}

\* ------------------------------------------- catalog refresh against ticks
TleInstants == {1, TLE_FETCH_MS, TLE_FETCH_MS + 1}

TleItems ==
    {RawItem("absent", 0, <<>>), Stringify(0 - 1, TextOne),
     Stringify(0 - 1, TextCut)} \cup CorruptItems(<<>>)

InitTle == InitWith(TleItems, {RawItem("absent", 0, <<>>)}, {RawItem("absent", 0, SnapNull)})

NextTle ==
    \/ InitAbort
    \/ InitStart({"down"}, {"down"})
    \/ InitJoin
    \/ TleFetchDone(TleTexts, {"reject"})
    \/ TleBodyDone(BOOLEAN, BOOLEAN)
    \/ HorFetchDone({})
    \/ TimerTLEs
    \/ UpdateMathLoop(NoLook, OneLook)
    \/ Advance(TleInstants)

SpecTle == InitTle /\ [][NextTle]_vars

\* ------------------------------------------------ terrain fetch, repeated
HorInstants == {1}

HorItems ==
    {RawItem("absent", 0, <<>>), Stringify(1 - HORIZON_TTL, CsvRemote)}
    \cup CorruptItems(<<>>)

InitHor == InitWith({RawItem("absent", 0, <<>>)}, HorItems, {RawItem("absent", 0, SnapNull)})

NextHor ==
    \/ InitAbort
    \/ InitStart(SourceStates, SourceStates)
    \/ InitJoin
    \/ TleFetchDone({}, {"reject"})
    \/ HorFetchDone({})
    \/ HorBodyDone(BOOLEAN, BOOLEAN)
    \/ FetchHorizonAgain(SourceStates, SourceStates)
    \/ Advance(HorInstants)

SpecHor == InitHor /\ [][NextHor]_vars

\* ------------------------------------------------- aircraft feed over time
PlnInstants == {1, 2, GRACE_MS, GRACE_MS + 1, GRACE_MS + 2}

PlnItems == {RawItem("absent", 0, SnapNull)}

InitPln == InitWith({RawItem("absent", 0, <<>>)}, {RawItem("absent", 0, <<>>)}, PlnItems)

NextPln ==
    \/ InitAbort
    \/ InitStart({"down"}, {"down"})
    \/ InitJoin
    \/ TleFetchDone({}, {"reject"})
    \/ HorFetchDone({})
    \/ PlnFetchDone(Snapshots, {})
    \/ PlnBodyDone(BOOLEAN, {TRUE})
    \/ TimerPlanes
    \/ FeedOutage
    \/ Advance(PlnInstants)

SpecPln == InitPln /\ [][NextPln]_vars

\* The timers keep firing, pending network promises settle, time passes.
FairSpecPln ==
    /\ SpecPln
    /\ WF_vars(TimerPlanes)
    /\ WF_vars(PlnFetchDone(Snapshots, {}))
    /\ WF_vars(PlnBodyDone(BOOLEAN, {TRUE}))
    /\ WF_vars(Advance(PlnInstants))

\* ------------------------------------------- aircraft records, one by one
UpsertInstants == {2, GRACE_MS + 2}

NextUpsert ==
    \/ InitAbort
    \/ InitStart({"down"}, {"down"})
    \/ InitJoin
    \/ TleFetchDone({}, {"reject"})
    \/ HorFetchDone({})
    \/ PlnFetchDone({SnapH1, SnapBoth, SnapNoPos, SnapBlank}, {})
    \/ PlnBodyDone({TRUE}, {TRUE})
    \/ TimerPlanes
    \/ Advance(UpsertInstants)

SpecUpsert == InitPln /\ [][NextUpsert]_vars

\* --------------------------------------------- the cache under both flavours
CacheInstants == {1, 2, 3}

CacheTleItems ==
    {RawItem("absent", 0, <<>>), Stringify(2 - TLE_FETCH_MS, TextTwo),
     RawItem("garbage", 0, <<>>)}

CachePlnItems ==
    {RawItem("absent", 0, SnapNull), Stringify(0 - 1, SnapBoth),
     RawItem("jsonnull", 0, SnapNull), RawItem("nots", 0, SnapNull)}

InitCache == InitWith(CacheTleItems, {RawItem("absent", 0, <<>>)}, CachePlnItems)

NextCache ==
    \/ InitAbort
    \/ InitStart({"down"}, {"down"})
    \/ InitJoin
    \/ TleFetchDone({TextOne}, {"reject"})
    \/ TleBodyDone(BOOLEAN, BOOLEAN)
    \/ HorFetchDone({})
    \/ PlnFetchDone({SnapEmpty, SnapH1}, {"reject"})
    \/ PlnBodyDone(BOOLEAN, BOOLEAN)
    \/ TimerPlanes
    \/ Advance(CacheInstants)

SpecCache == InitCache /\ [][NextCache]_vars

\* ------------------------------------------ startup with fetches that hang
InitInstants == {1}

InitBoot ==
    InitWith({RawItem("absent", 0, <<>>)}, {RawItem("absent", 0, <<>>)},
             {RawItem("absent", 0, SnapNull)})

NextBoot ==
    \/ InitAbort
    \/ InitStart({"ok", "down"}, {"down"})
    \/ InitJoin
    \/ TleFetchDone({TextOne}, {"reject", "hang"})
    \/ TleBodyDone({TRUE}, {TRUE})
    \/ HorFetchDone({"hang"})
    \/ HorBodyDone({TRUE}, {TRUE})
    \/ PlnFetchDone({SnapH1}, {"hang"})
    \/ PlnBodyDone({TRUE}, {TRUE})
    \/ TimerPlanes
    \/ TimerTLEs
    \/ UpdateMathLoop(NoLook, OneLook)
    \/ Advance(InitInstants)

SpecBoot == InitBoot /\ [][NextBoot]_vars

\* ------------------------------------------ getHorizonLimit over the compass
SkyInstants == {1}

\* Query azimuths: below 0, on and around the seam, on and between samples,
\* one and two turns further.
LimitAz == {0 - 370, 0 - 10, 0, 5, 10, 45, 200, 350, 359, 360, 719}

LimitLooks == {Look(a, 10) : a \in LimitAz}
SeamLooks == {Look(0, 10), Look(350, 10)}

InitLimit ==
    InitWith({RawItem("absent", 0, <<>>)}, {RawItem("absent", 0, <<>>)},
             {RawItem("absent", 0, SnapNull)})

NextLimit ==
    \/ InitAbort
    \/ InitStart(TerrainStates \cup {"down"}, {"down"})
    \/ InitJoin
    \/ TleFetchDone({TextOne}, {})
    \/ TleBodyDone({TRUE}, {TRUE})
    \/ HorFetchDone({})
    \/ HorBodyDone({TRUE}, {TRUE})
    \/ PlnFetchDone({SnapH1}, {})
    \/ PlnBodyDone({TRUE}, {TRUE})
    \/ UpdateMathLoop(LimitLooks, SeamLooks)
    \/ Advance(SkyInstants)

SpecLimit == InitLimit /\ [][NextLimit]_vars

\* --------------------------------------- classification against the terrain
SatLooks == {NoPosition, Look(45, 10), Look(45, 2), Look(45, 0 - 5), Look(45, 0 - 10)}
AcLooks == {Look(45, 2), Look(45, 1), Look(45, 0 - 20)}

NextSky ==
    \/ InitAbort
    \/ InitStart({"ok", "flat", "down"}, {"down"})
    \/ InitJoin
    \/ TleFetchDone({TextTwo}, {"reject"})
    \/ TleBodyDone({TRUE}, {TRUE})
    \/ HorFetchDone({})
    \/ HorBodyDone({TRUE}, {TRUE})
    \/ PlnFetchDone({SnapH1}, {})
    \/ PlnBodyDone({TRUE}, {TRUE})
    \/ UpdateMathLoop(SatLooks, OneLook)
    \/ Advance(SkyInstants)

SpecSky == InitLimit /\ [][NextSky]_vars

NextAir ==
    \/ InitAbort
    \/ InitStart({"ok", "flat", "down"}, {"down"})
    \/ InitJoin
    \/ TleFetchDone({TextOne}, {})
    \/ TleBodyDone({TRUE}, {TRUE})
    \/ HorFetchDone({})
    \/ HorBodyDone({TRUE}, {TRUE})
    \/ PlnFetchDone({SnapEmpty, SnapH1, SnapBoth}, {})
    \/ PlnBodyDone({TRUE}, {TRUE})
    \/ TimerPlanes
    \/ UpdateMathLoop(NoLook, AcLooks)
    \/ Advance(SkyInstants)

SpecAir == InitLimit /\ [][NextAir]_vars

\* ----------------------------------------- rendering while the feeds refresh
PlotSatLooks == {NoPosition, Look(45, 10)}
PlotAcLooks == {Look(45, 10), Look(45, 0 - 20)}

NextPlot ==
    \/ InitAbort
    \/ InitStart({"ok", "down"}, {"down"})
    \/ InitJoin
    \/ TleFetchDone({TextOne}, {})
    \/ TleBodyDone({TRUE}, {TRUE})
    \/ HorFetchDone({})
    \/ HorBodyDone({TRUE}, {TRUE})
    \/ PlnFetchDone({SnapH1}, {})
    \/ PlnBodyDone({TRUE}, {TRUE})
    \/ TimerPlanes
    \/ TimerTLEs
    \/ FetchHorizonAgain({"ok", "down"}, {"down"})
    \/ UpdateMathLoop(PlotSatLooks, PlotAcLooks)
    \/ Advance(SkyInstants)

SpecPlot == InitLimit /\ [][NextPlot]_vars

\* ------------------------------------------------ parseHorizonCsv on files
CsvStates == TerrainStates \cup {"badrow", "garbage", "notfound", "down"}

NextCsv ==
    \/ InitAbort
    \/ InitStart(CsvStates, CsvStates)
    \/ InitJoin
    \/ TleFetchDone({}, {"reject"})
    \/ HorFetchDone({})
    \/ HorBodyDone({TRUE}, BOOLEAN)
    \/ FetchHorizonAgain(CsvStates, {"down"})
    \/ Advance(SkyInstants)

SpecCsv == InitLimit /\ [][NextCsv]_vars

\* ------------------------------------------- catalog texts with a bad group
CatalogInstants == {1, TLE_FETCH_MS + 1}

NextCatalog ==
    \/ InitAbort
    \/ InitStart({"down"}, {"down"})
    \/ InitJoin
    \/ TleFetchDone({TextTwo, TextCut, TextBlank, TextShort}, {})
    \/ TleBodyDone({TRUE}, {TRUE})
    \/ HorFetchDone({})
    \/ PlnFetchDone({SnapEmpty}, {})
    \/ PlnBodyDone({TRUE}, {TRUE})
    \/ TimerTLEs
    \/ Advance(CatalogInstants)

SpecCatalog == InitLimit /\ [][NextCatalog]_vars

\* ----------------------------------------------- overlapping aircraft fetches
OverlapInstants == {PLANE_FETCH_MS, PLANE_FETCH_MS + 1, PLANE_FETCH_MS + 2}

NextOverlap ==
    \/ InitAbort
    \/ InitStart({"down"}, {"down"})
    \/ InitJoin
    \/ TleFetchDone({}, {"reject"})
    \/ HorFetchDone({})
    \/ PlnFetchDone({SnapH1, SnapBoth}, {})
    \/ PlnBodyDone({TRUE}, {TRUE})
    \/ TimerPlanes
    \/ TimerPlanesOverlap
    \/ PlnFetchDone2({SnapH1, SnapBoth}, {})
    \/ PlnBodyDone2({TRUE}, {TRUE})
    \/ Advance(OverlapInstants)

SpecOverlap == InitPln /\ [][NextOverlap]_vars

\* ------------------------------------------- startup on incomplete documents
StartupPages ==
    {Page({}), Page({"Plotly"}), Page({"satellite.js"}), Page({"count-sat"}),
     Page({"polar", "blocked-sat"}), Page({"blocked-sat"}), Page({"blocked-plane"})}

InitStartup ==
    InitPage({RawItem("absent", 0, <<>>)}, {RawItem("absent", 0, <<>>)},
             {RawItem("absent", 0, SnapNull)}, StartupPages)

SpecStartup == InitStartup /\ [][NextBoot]_vars

\* init() runs once the script has loaded; a pending network promise settles
\* unless it hangs (a step of its action that leaves it "hung"); timers that
\* are set keep firing.
FairSpecBoot ==
    /\ SpecBoot
    /\ WF_vars(InitAbort \/ InitStart({"ok", "down"}, {"down"}))
    /\ WF_vars(InitJoin)
    /\ WF_vars(TleFetchDone({TextOne}, {"reject", "hang"}))
    /\ WF_vars(TleBodyDone({TRUE}, {TRUE}))
    /\ WF_vars(HorFetchDone({"hang"}))
    /\ WF_vars(HorBodyDone({TRUE}, {TRUE}))
    /\ WF_vars(PlnFetchDone({SnapH1}, {"hang"}))
    /\ WF_vars(PlnBodyDone({TRUE}, {TRUE}))
    /\ WF_vars(UpdateMathLoop(NoLook, OneLook))
    /\ WF_vars(TimerPlanes)
    /\ WF_vars(TimerTLEs)

\* C1: every tick reads SK_STATE.satRecords as the complete catalog that was
\* resident before the latest fetchTLEs call or as the complete catalog that
\* call parsed (there is none when the call failed), never a partial one.
C1_TickSeesWholeCatalog ==
    tick.ran => tick.sat \in {tick.old, tick.new}

\* C2: when a fetchTLEs call has failed (the retrieval rejected, or parsing
\* raised), SK_STATE.satRecords is the catalog resident before the call.
C2_FailureKeepsCatalog ==
    (tle.ended /\ tle.failed) => satRecords = tle.old

\* C5: whenever the primary attempt of a fetchHorizon call was made and the
\* primary source failed (down, not found, or content that is no CSV), the
\* call went on to contact the secondary source; and the secondary is never
\* contacted in a call whose primary attempt returned a payload of a healthy
\* source.
C5_FallbackOnAnyFailure ==
    /\ (hor.ended /\ hor.primTried /\ hor.srcP # "ok") => hor.secTried
    /\ ~(hor.secTried /\ hor.primRet /\ hor.srcP = "ok")

\* C6: when the primary attempt was made and both sources fail, a finished
\* fetchHorizon call leaves SK_STATE.horizon as it was before the call.
C6_BothFailKeepsHorizon ==
    (hor.ended /\ hor.primTried /\ hor.srcP # "ok" /\ hor.srcS # "ok")
        => horizon = hor.before

\* The aircraft that the last processed snapshot did not contain.
AbsentFromSnapshot == (DOMAIN pln.pr.before) \ pln.pr.valid

AgeAtProcessing(h) == pln.pr.at - pln.pr.before[h].last_update

C4_OutageShrinks ==
    \A h \in Hexes :
        (feed = "down" /\ h \in DOMAIN planes /\ now - planes[h].last_update > GRACE_MS)
            ~> (h \notin DOMAIN planes)

\* The entry a call read was fresh: a well-formed {ts, data} younger than ttl.
ReadFresh(c) == c.readRaw.kind = "json" /\ c.t0 - c.readRaw.ts < c.ttl

\* C7, for one call record: an entry the miss path stored carries the time of
\* the write, so that a read right after the write (any ttl > 0; here the
\* call's own) finds it fresh and returns the payload unchanged; and an
\* entry aged ttl or more is not returned.
RoundTrip(c) ==
    /\ (c.res = "ret" /\ c.wok) =>
          /\ c.wrote.kind = "json"
          /\ c.tw - c.wrote.ts < c.ttl
          /\ c.wrote.data = c.ret
    /\ c.res = "hit" => c.t0 - c.readRaw.ts < c.ttl

\* C7: cache round trip and expiry, for cachedFetchText and cachedFetchJson.
C7_CacheRoundTrip == RoundTrip(tle) /\ RoundTrip(hor) /\ RoundTrip(pln)

\* C8, for one call record: a fresh entry is returned without network
\* retrieval and without cache write; otherwise there is exactly one network
\* retrieval and, when it delivers, one write of the retrieved payload under
\* the key, and that payload is returned.
HitMiss(c) ==
    /\ c.res = "hit" =>
          ReadFresh(c) /\ c.ret = c.readRaw.data /\ c.net = 0 /\ c.writes = 0
    /\ c.res \in {"miss", "ret", "neterr"} => ~ReadFresh(c) /\ c.net = 1
    /\ c.res \in {"miss", "neterr"} => c.writes = 0
    /\ c.res = "ret" =>
          /\ c.writes = 1
          /\ c.ret = c.resp
          /\ c.wok => (c.wrote.kind = "json" /\ c.wrote.data = c.resp)

\* C8: the hit/miss protocol of cachedFetchText and cachedFetchJson.
C8_HitMissProtocol ==
    /\ HitMiss(tle) /\ HitMiss(hor) /\ HitMiss(pln)
    /\ (tle.res = "ret" /\ tle.wok) => store.tles = tle.wrote
    /\ (hor.res = "ret" /\ hor.wok) => store.horizon = hor.wrote
    /\ (pln.res = "ret" /\ pln.wok) => store.planes = pln.wrote

\* A fresh entry was served from the cache by one flavour while the other
\* retrieved, stored and returned a payload.
C8_Witness ==
    /\ pln.res = "hit" /\ pln.readRaw.ts = pln.t0 - 1
    /\ tle.res = "ret" /\ tle.wok

\* C9, for one call record: no storage fault leaves the call; a missing,
\* corrupt or unparseable entry goes the miss path; a payload that could not
\* be persisted is returned all the same.
StorageFaultsHidden(c) ==
    /\ c.res # "storerr"
    /\ c.readRaw.kind \in {"absent", "garbage", "jsonnull", "nots"}
          => (c.res \in {"none", "miss", "ret", "neterr"} /\ (c.res # "none" => c.net = 1))
    /\ (c.res = "ret" /\ ~c.wok) => c.ret = c.resp

\* C9: cache storage faults never reach the caller of a cached fetch.
C9_StorageFaultsHidden ==
    StorageFaultsHidden(tle) /\ StorageFaultsHidden(hor) /\ StorageFaultsHidden(pln)

\* A call read a corrupt entry, retrieved, failed to persist and returned.
C9_Witness ==
    /\ pln.res = "ret" /\ ~pln.wok /\ pln.readRaw.kind \in {"jsonnull", "nots"}
    /\ tle.readRaw.kind = "garbage" /\ tle.res \in {"ret", "neterr"}

\* C10: once the startup check has passed (init is past line 358), the fast
\* tick gets to run, whatever the fetches do, a fetch that never completes
\* included.
C10_TickNeverBlocked ==
    (initPc \in {"awaiting", "running"}) ~> tick.ran

\* C11: when a library or an element that the startup check requires is
\* missing, init shows the startup banner and returns before any fetch is
\* issued, any plot is initialised and any timer is set, and nothing runs
\* afterwards: no fetcher is ever called, no tick ever runs, however much
\* time passes.
RequiredMissing == page.missing \cap (Libraries \cup CheckedIds) # {}

C12_NoTickFatal ==
    tick.ran =>
        /\ tick.done
        /\ tick.wrote = {TickIds[i] : i \in 1..Len(TickIds)}
        /\ page.banner = "none"

\* C13: in every tick each orbital object with a position is in the visible
\* list, with its name, azimuth, elevation and range, exactly when its
\* elevation is above what getHorizonLimit returned for its azimuth; it is
\* counted as blocked exactly when it is not visible and its elevation is
\* above -10; an object without a position is in neither.  So an object at
\* azimuth 45, elevation 10 under an occlusion elevation of 2 is visible and
\* not counted as blocked.
C13_SatVisible(i) ==
    /\ tick.sats[i].pos
    /\ ~tick.satLim[i].nan
    /\ tick.sats[i].el * tick.satLim[i].den > tick.satLim[i].num

C13_SatBlocked(i) ==
    tick.sats[i].pos /\ ~C13_SatVisible(i) /\ tick.sats[i].el > 0 - 10

C13_SatClassification ==
    tick.ran =>
        LET vis == {i \in DOMAIN tick.sats : C13_SatVisible(i)}
            entry(i) == [name |-> tick.sats[i].name, az |-> tick.sats[i].az,
                         el |-> tick.sats[i].el, dist |-> tick.sats[i].dist,
                         group |-> tick.sats[i].group]
        IN  /\ Len(tick.visSats) = Cardinality(vis)
            /\ \A i \in vis : \E k \in DOMAIN tick.visSats : tick.visSats[k] = entry(i)
            /\ \A k \in DOMAIN tick.visSats : \E i \in vis : tick.visSats[k] = entry(i)
            /\ tick.blockSats =
                   Cardinality({i \in DOMAIN tick.sats : C13_SatBlocked(i)})
            /\ \A i \in DOMAIN tick.sats :
                   (/\ tick.sats[i].pos
                    /\ tick.sats[i].az = 45 /\ tick.sats[i].el = 10
                    /\ tick.satLim[i].num = 2 * tick.satLim[i].den)
                   => i \in vis /\ ~C13_SatBlocked(i)

C13_Witness ==
    /\ tick.ran
    /\ Len(tick.sats) = 2
    /\ tick.sats[1].pos /\ tick.sats[1].az = 45 /\ tick.sats[1].el = 10
    /\ tick.satLim[1].num = 2 * tick.satLim[1].den
    /\ ~tick.sats[2].pos
    /\ Len(tick.visSats) = 1 /\ tick.visSats[1].el = 10 /\ tick.visSats[1].az = 45
    /\ tick.blockSats = 0

\* C14: in every tick each tracked aircraft is in the visible list exactly
\* when its elevation is above what getHorizonLimit returned for its azimuth
\* less 0.5, and is counted as blocked otherwise, so that the length of the
\* visible list plus the blocked count is the number of tracked aircraft.
C14_AcVisible(i) ==
    /\ ~tick.acLim[i].nan
    /\ 2 * tick.acs[i].el * tick.acLim[i].den
           > 2 * tick.acLim[i].num - tick.acLim[i].den

C14_AcClassification ==
    tick.ran =>
        LET vis == {i \in DOMAIN tick.acs : C14_AcVisible(i)}
            entry(i) == [name |-> tick.acs[i].name, az |-> tick.acs[i].az,
                         el |-> tick.acs[i].el, dist |-> tick.acs[i].dist,
                         group |-> "Aircraft"]
        IN  /\ Len(tick.acs) = tick.tracked
            /\ Len(tick.visPlanes) = Cardinality(vis)
            /\ \A i \in vis : \E k \in DOMAIN tick.visPlanes : tick.visPlanes[k] = entry(i)
            /\ \A k \in DOMAIN tick.visPlanes : \E i \in vis : tick.visPlanes[k] = entry(i)
            /\ tick.blockPlanes = Cardinality(DOMAIN tick.acs \ vis)
            /\ Len(tick.visPlanes) + tick.blockPlanes = tick.tracked

C14_Witness ==
    /\ tick.ran
    /\ tick.tracked = 2
    /\ tick.acs[1].el = 2 /\ tick.acLim[1].num = 2 * tick.acLim[1].den
    /\ tick.acs[2].el = 0 - 20
    /\ Len(tick.visPlanes) = 1
    /\ tick.blockPlanes = 1

\* What getHorizonLimit returned during the last tick: the query azimuths
\* with the values returned for them.
Returned ==
    {[az |-> tick.sats[i].az, lim |-> tick.satLim[i]] : i \in DOMAIN tick.sats}
    \cup {[az |-> tick.acs[i].az, lim |-> tick.acLim[i]] : i \in DOMAIN tick.acs}

\* C16: with an empty horizon profile getHorizonLimit returns -5 for every
\* query azimuth, negative ones and ones of 360 and more included.
C16_EmptyProfileDefault ==
    (tick.ran /\ Len(tick.hz.az) = 0) =>
        \A x \in Returned : x.lim = [nan |-> FALSE, num |-> 0 - 5, den |-> 1]

C16_Witness ==
    /\ tick.ran
    /\ Len(tick.hz.az) = 0
    /\ Len(tick.sats) = 1 /\ tick.sats[1].az = 0 - 370 /\ tick.satLim[1].num = 0 - 5
    /\ Len(tick.acs) = 1 /\ tick.acs[1].az = 350

\* C17: for a sorted profile with samples inside [0, 360), a query on the
\* far side of the seam (beyond the last sample, or up to the first) gets
\* the value of the straight line from the last sample to the first, taken
\* the short way round through 360/0, so that the values just below 360 and
\* at 0 lie on one segment; queries that differ by whole turns get the same
\* value.
C17_OnSeamSegment(h, x) ==
    LET n == Len(h.az)
        run == (h.az[1].v - h.az[n].v + 360) % 360
        q == x.az % 360
    IN  (q > h.az[n].v \/ q <= h.az[1].v) =>
            /\ ~x.lim.nan
            /\ IF run = 0 THEN x.lim.num = h.alt[n].v * x.lim.den
               ELSE x.lim.num * run =
                       (h.alt[n].v * run
                        + (h.alt[1].v - h.alt[n].v) * ((q - h.az[n].v) % 360))
                       * x.lim.den

C17_SeamContinuity ==
    (/\ tick.ran
     /\ Len(tick.hz.az) > 0
     /\ \A k \in DOMAIN tick.hz.az :
            /\ ~tick.hz.az[k].nan /\ ~tick.hz.alt[k].nan
            /\ tick.hz.az[k].v >= 0 /\ tick.hz.az[k].v < 360)
    => /\ \A x \in Returned : C17_OnSeamSegment(tick.hz, x)
       /\ \A x, y \in Returned : (x.az - y.az) % 360 = 0 => x.lim = y.lim

C17_Witness ==
    /\ tick.ran
    /\ tick.hz.az = <<Num(10), Num(350)>>
    /\ tick.hz.alt = <<Num(1), Num(5)>>
    /\ Len(tick.sats) = 1 /\ tick.sats[1].az = 359
    /\ 5 * tick.satLim[1].num = 16 * tick.satLim[1].den
    /\ Len(tick.acs) = 1 /\ tick.acs[1].az = 0
    /\ tick.acLim[1].num = 3 * tick.acLim[1].den

\* C18: when every sample of a non-empty profile has the same elevation e,
\* getHorizonLimit returns e for every query azimuth, whether the profile
\* has one sample or several and whether or not samples share an azimuth.
C18_FlatProfile ==
    (/\ tick.ran
     /\ Len(tick.hz.az) > 0
     /\ \A k \in DOMAIN tick.hz.alt :
            ~tick.hz.alt[k].nan /\ tick.hz.alt[k].v = tick.hz.alt[1].v)
    => \A x \in Returned :
           ~x.lim.nan /\ x.lim.num = tick.hz.alt[1].v * x.lim.den

C18_Witness ==
    /\ tick.ran
    /\ Len(tick.hz.az) = 3
    /\ tick.hz.az[1] = tick.hz.az[2]
    /\ tick.hz.alt = <<Num(2), Num(2), Num(2)>>
    /\ Len(tick.sats) = 1 /\ tick.sats[1].az = 45
    /\ tick.satLim[1].num = 2 * tick.satLim[1].den

\* C15: after every tick that reaches the renderer, the trace list of the
\* plot is the static layers initPlots drew (the beam, and the terrain when
\* it was drawn), unchanged and in place, followed by exactly the traces
\* built from that tick's visible lists, whatever fetches ran before, a
\* fetchHorizon after the plots were initialised included.
C15_StaticPrefixKept ==
    (tick.done /\ plotInitialized) =>
        plot.data = plot.layers \o BuildTraces(tick.visPlanes \o tick.visSats, 1)

\* C19: a record without latitude or without longitude is ignored by
\* fetchPlanes: it creates no entry, leaves an existing entry of its hex id
\* as it was, and does not keep that entry from being pruned once it is
\* older than the grace window.
C19_WithoutPosition ==
    {pln.pr.ac[i].hex : i \in {j \in DOMAIN pln.pr.ac :
                                  pln.pr.ac[j].lat = 0 \/ pln.pr.ac[j].lon = 0}}
    \ {pln.pr.ac[i].hex : i \in {j \in DOMAIN pln.pr.ac :
                                    pln.pr.ac[j].lat # 0 /\ pln.pr.ac[j].lon # 0}}

C19_NoPositionIgnored ==
    pln.pr.ran =>
        \A h \in C19_WithoutPosition :
            IF h \notin DOMAIN pln.pr.before THEN h \notin DOMAIN planes
            ELSE /\ h \in DOMAIN planes => planes[h] = pln.pr.before[h]
                 /\ h \in DOMAIN planes
                        <=> pln.pr.at - pln.pr.before[h].last_update <= GRACE_MS

\* h1, tracked, came without latitude and was pruned as stale; h2, tracked
\* and recent, came without longitude and stayed as it was.
C19_Witness ==
    /\ pln.pr.ran
    /\ C19_WithoutPosition = {"h1", "h2"}
    /\ {"h1", "h2"} \subseteq DOMAIN pln.pr.before
    /\ "h1" \notin DOMAIN planes
    /\ "h2" \in DOMAIN planes /\ planes["h2"] = pln.pr.before["h2"]

\* C20: after an upsert the stored callsign is the record's flight field
\* (trimmed) when that field is not blank; when it is absent, empty or all
\* whitespace it is the registration when there is one, else the hex id.  A
\* tracked aircraft never has an empty callsign.
C20_Expected(p) ==
    IF \E i \in DOMAIN p.flight : p.flight[i] # " " THEN Trim(p.flight)
    ELSE IF p.r # <<>> THEN p.r
    ELSE <<p.hex>>

C20_CallsignSelection ==
    /\ pln.pr.ran =>
          \A i \in DOMAIN pln.pr.ac :
              (/\ pln.pr.ac[i].lat # 0 /\ pln.pr.ac[i].lon # 0
               /\ \A j \in DOMAIN pln.pr.ac : j > i => pln.pr.ac[j].hex # pln.pr.ac[i].hex)
              => planes[pln.pr.ac[i].hex].callsign = C20_Expected(pln.pr.ac[i])
    /\ \A h \in DOMAIN planes : planes[h].callsign # <<>>

\* C21: after every parseHorizonCsv, whatever the text and the order of its
\* rows, SK_STATE.horizon.az and .alt have the same length and hold numbers
\* only, az is sorted non-decreasing, and the pairs (az[i], alt[i]) are
\* exactly the rows of the text after the header that have three fields or
\* more with a numeric azimuth and a numeric elevation.
C21_Rows(text) ==
    {k \in 2..Len(text) :
        Len(text[k]) >= 3 /\ ~text[k][2].nan /\ ~text[k][3].nan}

C21_ProfileInvariant ==
    /\ Len(horizon.az) = Len(horizon.alt)
    /\ \A i \in DOMAIN horizon.az : ~horizon.az[i].nan /\ ~horizon.alt[i].nan
    /\ \A i, j \in DOMAIN horizon.az : i < j => horizon.az[i].v <= horizon.az[j].v
    /\ (hor.ended /\ hor.res \in {"hit", "ret"}) =>
           /\ Len(horizon.az) = Cardinality(C21_Rows(hor.ret))
           /\ \A k \in C21_Rows(hor.ret) :
                  Cardinality({i \in DOMAIN horizon.az :
                                  /\ horizon.az[i] = hor.ret[k][2]
                                  /\ horizon.alt[i] = hor.ret[k][3]})
                  = Cardinality({m \in C21_Rows(hor.ret) :
                                    /\ hor.ret[m][2] = hor.ret[k][2]
                                    /\ hor.ret[m][3] = hor.ret[k][3]})

\* C22: when fetchTLEs has parsed a text, the catalog holds exactly the
\* well-formed triplets of that text (a name line followed by its first and
\* its second element line), each under its own name with its own two
\* lines, whatever malformed group stands before or after them.
C22_Triplets(text) ==
    {k \in 1..(Len(text) - 2) :
        /\ text[k] # <<>> /\ Head(text[k]) \notin {"1", "2"}
        /\ text[k + 1] # <<>> /\ Head(text[k + 1]) = "1"
        /\ text[k + 2] # <<>> /\ Head(text[k + 2]) = "2"}

C22_MalformedDroppedAlone ==
    (tle.ended /\ tle.res \in {"hit", "ret"}) =>
        /\ Len(satRecords) = Cardinality(C22_Triplets(tle.ret))
        /\ {satRecords[i] : i \in DOMAIN satRecords}
               = {[name |-> Trim(tle.ret[k]), group |-> getGroup(Trim(tle.ret[k])),
                   l1 |-> Trim(tle.ret[k + 1]), l2 |-> Trim(tle.ret[k + 2])] :
                        k \in C22_Triplets(tle.ret)}

\* C23: in every step, whichever fetchPlanes call takes it (calls that
\* overlap and complete out of order, cache hits), the last_update of an
\* entry that stays in SK_STATE.planes does not decrease.
C23_LastUpdateMonotone ==
    [][\A h \in (DOMAIN planes) \cap (DOMAIN planes') :
          planes'[h].last_update >= planes[h].last_update]_vars

\* Two overlapping calls, both retrieving: the later-issued one completed
\* first and stamped h1, then the earlier-issued one completed at a later
\* instant and stamped h1 again.
C23_Witness ==
    /\ pln.ended /\ pln2.ended
    /\ pln.res = "ret" /\ pln2.res = "ret"
    /\ pln2.t0 > pln.t0
    /\ pln.pr.ran /\ pln2.pr.ran
    /\ pln.pr.at > pln2.pr.at
    /\ "h1" \in DOMAIN pln.pr.before
    /\ pln.pr.before["h1"].last_update = pln2.pr.at
    /\ "h1" \in DOMAIN planes
    /\ planes["h1"].last_update = pln.pr.at

\* C24: once two overlapping fetchPlanes calls that both retrieved a
\* snapshot have completed, in either order, the cached snapshot is the
\* one of the later-issued call, stamped with its time, and every aircraft
\* of that snapshot is stored at the position it gives.
C24_LaterIssuedWins ==
    (/\ pln.ended /\ pln2.ended
     /\ pln.res = "ret" /\ pln2.res = "ret"
     /\ pln.pr.ran /\ pln2.pr.ran)
    => /\ store.planes = Stringify(pln2.t0, pln2.ret)
       /\ \A i \in DOMAIN pln2.ret.ac :
              (pln2.ret.ac[i].lat # 0 /\ pln2.ret.ac[i].lon # 0)
              => /\ pln2.ret.ac[i].hex \in DOMAIN planes
                 /\ planes[pln2.ret.ac[i].hex].lat = pln2.ret.ac[i].lat
                 /\ planes[pln2.ret.ac[i].hex].lon = pln2.ret.ac[i].lon

====
